---- MODULE Spec2Model ----
(***************************************************************************)
(* A model of src/surat.py: the paired-frame sampler Data (__init__,       *)
(* __getitem__, __len__), the mood lookup of Model.forward and the         *)
(* epoch/batch loop of train().                                            *)
(*                                                                         *)
(* Tensors are modelled by their structure.  The feature sequence          *)
(* self.MFCC is the sequence of its row labels <<0, 1, ..., T-1>> (every   *)
(* row is a vector of NumCeps coefficients), so a window is the sequence   *)
(* of the labels of the rows it holds.  Target values are fixed-point      *)
(* numbers in units of 1/Unit.  Model parameters are abstracted to the     *)
(* number of optimizer updates applied to them.                            *)
(***************************************************************************)
EXTENDS Integers, Sequences, FiniteSets, TLC

(***************************************************************************)
(* Program constants.                                                      *)
(***************************************************************************)
sampleRate == 16000       \* surat.py:35-37, the waveform is brought to 16 kHz
animFPS100 == 2997        \* surat.py:28, animFPS = 29.97, in hundredths
FrameLengthMs == 256      \* surat.py:51, kaldi frame_length (milliseconds)
FrameShiftMs == 32        \* surat.py:52, kaldi frame_shift (milliseconds)
NumCeps == 32             \* surat.py:49, coefficients of one feature row
HalfWindow == 32          \* surat.py:66, rows before / after audioIdx
WindowRows == 64          \* surat.py:103, rows of one window
PairSize == 2             \* surat.py:103, windows of one sample
CheckpointEvery == 50     \* surat.py:326

(***************************************************************************)
(* Bounds of the model.                                                    *)
(***************************************************************************)
SampleStep == 7000        \* waveform lengths are MinSamples + k * SampleStep
MaxSteps == 6             \* k \in 0..MaxSteps
OUTPUT_COUNT == 2         \* stands for 8320 * 3 (surat.py:18)
MaxSeed == 1              \* contents of the target files: seeds 0..MaxSeed
batchSize == 2            \* stands for 1024 (surat.py:256)
epochCount == 100         \* stands for 50000 (surat.py:271)
MaxStride == 5            \* shuffles drawn by the loader: see Shuffles

Unit == 4                 \* fixed point: the integer v stands for v / Unit
RawMax == 2 * Unit        \* target files hold values in [-2, 2]

VARIABLES
    samples,      \* waveform.size()[1] after resampling
    preview,      \* self.preview
    shiftRandom,  \* self.shiftRandom
    count,        \* self.count
    MFCCLen,      \* self.MFCCLen
    maskFiles,    \* the files mask.00001 .. mask.<maskFiles> exist on disk
    maskSeed,     \* selects the contents of the target files
    ret,          \* outcome of the last call made on the Data object
    pc,           \* position of train()
    N,            \* epoch budget of the run (epochCount in the source)
    epochIdx,     \* the loop variable of train()
    order,        \* indices the loader has still to deliver in this epoch
    batch,        \* the batch delivered last: a sequence of samples
    fwd,          \* per folded row of the forward pass: its input and mood row
    emotion,      \* per batch element: the two mood rows the emotion loss compares
    grad,         \* "none", "zeroed", "computed"
    optSteps,     \* optimizer steps taken
    delivered,    \* batches delivered by the loader
    paramVer,     \* updates applied to the model parameters
    moodVer,      \* updates applied to the mood table model.mood
    moodSize,     \* rows of model.mood
    logged,       \* epochs whose three losses were sent to the log writer
    saves         \* checkpoints written, in order

vars == <<samples, preview, shiftRandom, count, MFCCLen, maskFiles, maskSeed,
          ret, pc, N, epochIdx, order, batch, fwd, emotion, grad, optSteps,
          delivered, paramVer, moodVer, moodSize, logged, saves>>

dataVars == <<samples, preview, shiftRandom, count, MFCCLen, maskFiles, maskSeed>>
trainVars == <<pc, N, epochIdx, order, batch, fwd, emotion, grad, optSteps, delivered,
               paramVer, moodVer, moodSize, logged, saves>>

Min(a, b) == IF a < b THEN a ELSE b
Max(a, b) == IF a > b THEN a ELSE b
Range(s) == {s[k] : k \in DOMAIN s}

(***************************************************************************)
(* Data.__init__                                                           *)
(***************************************************************************)
\* torchaudio.compliance.kaldi.mfcc at 16 kHz with frame_length=256 ms and
\* frame_shift=32 ms: windows of 4096 samples every 512 samples, edges snipped.
WindowSize == (sampleRate * FrameLengthMs) \div 1000
WindowShift == (sampleRate * FrameShiftMs) \div 1000
MinSamples == WindowSize

\* self.MFCC.size()[0]
FeatureRows(n) == IF n < WindowSize THEN 0 ELSE 1 + (n - WindowSize) \div WindowShift

\* A faulty variant: the frame count rounded to the nearest integer.
FrameCountRounded(n) == (2 * animFPS100 * n + 100 * sampleRate) \div (2 * 100 * sampleRate)

\* self.count = int(animFPS * (waveform.size()[1] / sampleRate))
FrameCount(n) == (animFPS100 * n) \div (100 * sampleRate)

\* self.MFCC: the rows of the feature sequence, by label
MFCC == [r \in 1..MFCCLen |-> r - 1]

SampleCounts == {MinSamples + k * SampleStep : k \in 0..MaxSteps}

(***************************************************************************)
(* Tensor operations used by Data.__getitem__                              *)
(***************************************************************************)
\* torch.roll(s, shift, dims=0): row j of the result is row (j - shift) mod T.
Roll(s, shift) ==
    [j \in 1..Len(s) |-> s[((j - 1 - shift) % Len(s)) + 1]]

\* s[:n]
Take(s, n) == SubSeq(s, 1, Min(n, Len(s)))

\* s[lo:hi] with Python's treatment of negative and overlong bounds
PyBound(s, k) == IF k < 0 THEN Max(k + Len(s), 0) ELSE Min(k, Len(s))
PySlice(s, lo, hi) == SubSeq(s, PyBound(s, lo) + 1, PyBound(s, hi))

\* rows.view(2, 1, 64, 32): defined only when the element counts agree
ViewOk(rows) == Len(rows) * NumCeps = PairSize * 1 * WindowRows * NumCeps
View(rows) == [p \in 1..PairSize |->
                 SubSeq(rows, (p - 1) * WindowRows + 1, p * WindowRows)]

(***************************************************************************)
(* Data.__getitem__                                                        *)
(***************************************************************************)
\* randomShift: random.randint(0, 1) when self.shiftRandom, else 0
Shifts == IF shiftRandom THEN {0, 1} ELSE {0}

\* int(i * (self.MFCCLen / self.count) + randomShift).  The quotient and the
\* product are rounded doubles: when i * MFCCLen / count is a positive whole
\* number q the product may come out just below q and truncate to q - 1;
\* in every other case the truncation is that of the exact value.
AudioIdx(i, s) ==
    LET q == (i * MFCCLen) \div count
    IN  {q + s} \cup (IF i * MFCCLen > 0 /\ (i * MFCCLen) % count = 0
                      THEN {q - 1 + s} ELSE {})

\* the test of line 66: one of the two naive windows leaves the sequence
NaiveOutOfRange(a, ap) ==
    \/ a < HalfWindow
    \/ ap < HalfWindow
    \/ a + HalfWindow > MFCCLen
    \/ ap + HalfWindow > MFCCLen

\* A faulty variant: the two halves of the rotated window swapped.
RolledWindowSwapped(a) ==
    Take(Roll(MFCC, -a), HalfWindow) \o Take(Roll(MFCC, (-a) + HalfWindow), HalfWindow)

\* lines 70-84: the window of audioIdx a built from two rotations
RolledWindow(a) ==
    Take(Roll(MFCC, (-a) + HalfWindow), HalfWindow) \o Take(Roll(MFCC, -a), HalfWindow)

\* lines 111-112: the window of audioIdx a taken as a plain slice
SlicedWindow(a) == PySlice(MFCC, a - HalfWindow, a + HalfWindow)

\* the rows handed to .view(2, 1, 64, 32), lines 66-119
WindowRowsOf(a, ap) ==
    IF NaiveOutOfRange(a, ap)
    THEN RolledWindow(a) \o RolledWindow(ap)
    ELSE SlicedWindow(a) \o SlicedWindow(ap)

\* the contents of mask.<k>.npy: OUTPUT_COUNT raw values in [-2, 2]
MaskFile(k) ==
    [j \in 1..OUTPUT_COUNT |->
        (((5 * k + 5 * j + maskSeed) % (2 * Unit + 1)) - Unit) * 2]

\* (targetValue) * .5, line 148
Half(x) == x \div 2

\* A faulty variant: the target files numbered like the sampler index.
TargetFilesZeroBased(i) == <<i, i + 1>>

\* the numbers of the two files np.load is given, lines 133 and 140
TargetFiles(i) == <<i + 1, i + 2>>

\* np.load succeeds on the files that exist
Loadable(k) == k \in 1..maskFiles

\* np.append(...).view(-1, OUTPUT_COUNT) * .5, lines 128-148
TargetValue(i) ==
    LET flat == MaskFile(TargetFiles(i)[1]) \o MaskFile(TargetFiles(i)[2])
    IN  [r \in 1..(Len(flat) \div OUTPUT_COUNT) |->
            [j \in 1..OUTPUT_COUNT |-> Half(flat[(r - 1) * OUTPUT_COUNT + j])]]

\* the files read before the first one that is missing
FilesRead(i) ==
    IF ~Loadable(TargetFiles(i)[1]) THEN <<>>
    ELSE IF ~Loadable(TargetFiles(i)[2]) THEN <<TargetFiles(i)[1]>>
    ELSE TargetFiles(i)

NoRet ==
    [call |-> "none", req |-> 0, status |-> "none", i |-> 0, randomShift |-> 0,
     audioIdxRoll |-> 0, audioIdxRollPair |-> 0, wrapped |-> FALSE,
     inputValue |-> <<>>, target |-> <<>>, reads |-> <<>>, len |-> 0]

\* lines 57-58
Wrap(i) == IF i < 0 THEN count + i ELSE i

\* One run of __getitem__(req) with jitter s and audio indices a, ap.
GetItemRun(req, s, a, ap) ==
    LET i == Wrap(req)
        rows == WindowRowsOf(a, ap)
        base == [NoRet EXCEPT !.call = "getitem", !.req = req, !.i = i,
                              !.randomShift = s, !.audioIdxRoll = a,
                              !.audioIdxRollPair = ap,
                              !.wrapped = NaiveOutOfRange(a, ap)]
    IN  IF ~ViewOk(rows)
        THEN [base EXCEPT !.status = "shape_error"]
        ELSE IF preview
        THEN [base EXCEPT !.status = "ok",
                          !.inputValue = <<View(rows)[1]>>,
                          !.target = <<[j \in 1..OUTPUT_COUNT |-> 0]>>]
        ELSE IF Len(FilesRead(i)) < Len(TargetFiles(i))
        THEN [base EXCEPT !.status = "io_error", !.reads = FilesRead(i)]
        ELSE [base EXCEPT !.status = "ok",
                          !.inputValue = View(rows),
                          !.target = TargetValue(i),
                          !.reads = FilesRead(i)]

\* every outcome of __getitem__(req)
GetItemOutcomes(req) ==
    UNION {{GetItemRun(req, s, a, ap) :
                a \in AudioIdx(Wrap(req), s), ap \in AudioIdx(Wrap(req) + 1, s)} :
           s \in Shifts}

(***************************************************************************)
(* Data.__len__                                                            *)
(***************************************************************************)
\* A faulty variant: the last frame is not excluded.
DataLenUnpaired == count

\* lines 151-154
DataLen == IF preview THEN count ELSE count - 1

(***************************************************************************)
(* The sampler used on its own: calls made on a constructed Data object.   *)
(***************************************************************************)
TrainIdle ==
    /\ pc = "idle" /\ N = 0 /\ epochIdx = 0 /\ order = <<>> /\ batch = <<>>
    /\ fwd = <<>> /\ emotion = <<>> /\ grad = "none" /\ optSteps = 0 /\ delivered = 0
    /\ paramVer = 0 /\ moodVer = 0 /\ moodSize = 0 /\ logged = 0 /\ saves = <<>>

\* Data(shiftRandom=sr, validationAudioPath=...) on a waveform of n samples
Construct(n, sr, pv) ==
    /\ samples = n
    /\ preview = pv
    /\ shiftRandom = (sr /\ ~pv)
    /\ count = FrameCount(n)
    /\ MFCCLen = FeatureRows(n)
    /\ ret = NoRet

Init ==
    /\ \E n \in SampleCounts, sr \in BOOLEAN, pv \in BOOLEAN : Construct(n, sr, pv)
    /\ maskFiles \in {0, count, count + 1}
    /\ maskSeed \in 0..MaxSeed
    /\ TrainIdle

\* a caller indexes the dataset: dataSet[req]
GetItem(req) ==
    /\ pc = "idle"
    /\ ret = NoRet
    /\ ret' \in GetItemOutcomes(req)
    /\ UNCHANGED <<dataVars, trainVars>>

\* a caller asks len(dataSet)
CallLen ==
    /\ pc = "idle"
    /\ ret = NoRet
    /\ ret' = [NoRet EXCEPT !.call = "len", !.status = "ok", !.len = DataLen]
    /\ UNCHANGED <<dataVars, trainVars>>

\* the caller has consumed the outcome of its call
Return ==
    /\ pc = "idle"
    /\ ret # NoRet
    /\ ret' = NoRet
    /\ UNCHANGED <<dataVars, trainVars>>

Next ==
    \/ \E req \in (-count)..(count - 1) : GetItem(req)
    \/ CallLen
    \/ Return

Spec == Init /\ [][Next]_vars

(***************************************************************************)
(* Model.forward, the branch mood = None used by train()                   *)
(***************************************************************************)
\* inputData.view(-1, 1, 64, 32) of a (B, 2, 1, 64, 32) batch: folded row r
\* (from 0) is member r mod 2 of batch element r div 2.
FoldedInput(b) ==
    [r \in 1..(PairSize * Len(b)) |->
        [elem |-> (r - 1) \div PairSize, member |-> (r - 1) % PairSize]]

\* moodIndex: the (B, 1) tensor of the frame indices of the batch
MoodIndex(b) == [k \in 1..Len(b) |-> b[k].i]

\* lines 241-246: torch.cat((self.mood[moodIndex], self.mood[moodIndex + 1]),
\* dim=0).view(out.size()[0], 16, 1, 1): the rows of all the i, then the rows
\* of all the i + 1; row r of the result is the mood row of folded row r.
MoodRows(idx) == idx \o [k \in 1..Len(idx) |-> idx[k] + 1]

\* the rows of model.mood an index may select
MoodRowOk(r) == r \in 0..(moodSize - 1)

\* lines 238-249: per folded row, its input window and the mood row joined to it
ForwardRows(b) ==
    [r \in 1..(PairSize * Len(b)) |->
        [elem |-> FoldedInput(b)[r].elem,
         member |-> FoldedInput(b)[r].member,
         mood |-> MoodRows(MoodIndex(b))[r]]]

\* lines 311-317: model.mood[i] against model.mood[i + 1]
EmotionPairs(b) == [k \in 1..Len(b) |-> <<b[k].i, b[k].i + 1>>]

(***************************************************************************)
(* train()                                                                 *)
(***************************************************************************)
RECURSIVE GCD(_, _)
GCD(a, b) == IF b = 0 THEN a ELSE GCD(b, a % b)

\* DataLoader(shuffle=True): each epoch a permutation of range(len(dataSet)).
\* The permutations explored are k |-> (k * d) mod len for the strides d up
\* to MaxStride that are coprime to len (d = 1 is the unshuffled order).
Shuffles(len) ==
    {[k \in 1..len |-> ((k - 1) * d) % len] :
        d \in {e \in 1..MaxStride : GCD(e, len) = 1}}

\* the shortest waveform whose feature sequence has HalfWindow rows
MinTrainable == WindowSize + (HalfWindow - 1) * WindowShift

\* lengths of samSoar.wav explored
TrainSamples == {MinSamples, MinTrainable}

\* every way of fetching the samples of the indices idxs
RECURSIVE BatchOutcomes(_)
BatchOutcomes(idxs) ==
    IF idxs = <<>> THEN {<<>>}
    ELSE {<<h>> \o t : h \in GetItemOutcomes(Head(idxs)),
                       t \in BatchOutcomes(Tail(idxs))}

\* A faulty variant: a checkpoint every epoch.
SaveDueAlways(e) == TRUE

\* line 326
SaveDue(e) == (e + 1) % CheckpointEvery = 0

\* torch.save(model.state_dict(), ...): the file's tag and the state it holds
Checkpoint(tag, e) ==
    [tag |-> tag, epoch |-> e, steps |-> optSteps, params |-> paramVer, mood |-> moodVer]

\* lines 256-280
InitTrain ==
    /\ \E n \in TrainSamples : Construct(n, TRUE, FALSE)
    /\ maskFiles \in {count - 1, count}
    /\ maskSeed = 0
    /\ N \in {epochCount - CheckpointEvery - 1, epochCount}
    /\ pc = "epoch" /\ epochIdx = 0 /\ order = <<>> /\ batch = <<>>
    /\ fwd = <<>> /\ emotion = <<>> /\ grad = "none" /\ optSteps = 0
    /\ delivered = 0 /\ paramVer = 0 /\ moodVer = 0
    /\ moodSize = count
    /\ logged = 0 /\ saves = <<>>

\* line 281-282: the next epoch begins and the loader draws its shuffle
StartEpoch ==
    /\ pc = "epoch" /\ epochIdx < N
    /\ order' \in Shuffles(DataLen)
    /\ pc' = "fetch"
    /\ UNCHANGED <<dataVars, ret, N, epochIdx, batch, fwd, emotion, grad, optSteps,
                   delivered, paramVer, moodVer, moodSize, logged, saves>>

\* line 282-289: the loader delivers the next batch, or the exception of the
\* sample that could not be built ends train()
Fetch ==
    /\ pc = "fetch" /\ order # <<>>
    /\ LET k == Min(batchSize, Len(order))
       IN  /\ \E b \in BatchOutcomes(SubSeq(order, 1, k)) :
                IF \A j \in 1..k : b[j].status = "ok"
                THEN /\ batch' = b
                     /\ delivered' = delivered + 1
                     /\ pc' = "zero_grad"
                ELSE /\ pc' = "fetch_error"
                     /\ UNCHANGED <<batch, delivered>>
           /\ order' = SubSeq(order, k + 1, Len(order))
    /\ UNCHANGED <<dataVars, ret, N, epochIdx, fwd, emotion, grad, optSteps,
                   paramVer, moodVer, moodSize, logged, saves>>

\* line 291
ZeroGrad ==
    /\ pc = "zero_grad"
    /\ grad' = "zeroed"
    /\ pc' = "forward"
    /\ UNCHANGED <<dataVars, ret, N, epochIdx, order, batch, fwd, emotion, optSteps,
                   delivered, paramVer, moodVer, moodSize, logged, saves>>

\* lines 292-293; an index outside model.mood raises
Forward ==
    /\ pc = "forward"
    /\ IF \A r \in DOMAIN ForwardRows(batch) : MoodRowOk(ForwardRows(batch)[r].mood)
       THEN fwd' = ForwardRows(batch) /\ pc' = "loss"
       ELSE fwd' = fwd /\ pc' = "index_error"
    /\ UNCHANGED <<dataVars, ret, N, epochIdx, order, batch, emotion, grad, optSteps,
                   delivered, paramVer, moodVer, moodSize, logged, saves>>

\* lines 295-317: the shape, motion and emotion losses
Loss ==
    /\ pc = "loss"
    /\ IF \A k \in DOMAIN batch : \A m \in 1..2 : MoodRowOk(EmotionPairs(batch)[k][m])
       THEN emotion' = EmotionPairs(batch) /\ pc' = "backward"
       ELSE emotion' = emotion /\ pc' = "index_error"
    /\ UNCHANGED <<dataVars, ret, N, epochIdx, order, batch, fwd, grad, optSteps,
                   delivered, paramVer, moodVer, moodSize, logged, saves>>

\* line 319
Backward ==
    /\ pc = "backward"
    /\ grad' = "computed"
    /\ pc' = "step"
    /\ UNCHANGED <<dataVars, ret, N, epochIdx, order, batch, fwd, emotion, optSteps,
                   delivered, paramVer, moodVer, moodSize, logged, saves>>

\* A faulty variant: the optimizer steps twice.
StepsAfterTwice == optSteps + 2

\* the optimizer's step count after modelOptimizer.step()
StepsAfter == optSteps + 1

\* line 320: Adam updates every parameter, the mood table among them
Step ==
    /\ pc = "step"
    /\ optSteps' = StepsAfter
    /\ paramVer' = paramVer + (StepsAfter - optSteps)
    /\ moodVer' = moodVer + (StepsAfter - optSteps)
    /\ pc' = "fetch"
    /\ UNCHANGED <<dataVars, ret, N, epochIdx, order, batch, fwd, emotion, grad,
                   delivered, moodSize, logged, saves>>

\* lines 322-330: the loader is exhausted; the last batch's losses are logged
\* (they are unbound if no batch was ever delivered) and the epoch's
\* checkpoint is written when due
EndEpoch ==
    /\ pc = "fetch" /\ order = <<>>
    /\ IF delivered = 0
       THEN pc' = "name_error" /\ UNCHANGED <<logged, saves, epochIdx>>
       ELSE /\ logged' = logged + 1
            /\ saves' = IF SaveDue(epochIdx)
                        THEN Append(saves, Checkpoint("E", epochIdx + 1))
                        ELSE saves
            /\ epochIdx' = epochIdx + 1
            /\ pc' = "epoch"
    /\ UNCHANGED <<dataVars, ret, N, order, batch, fwd, emotion, grad, optSteps,
                   delivered, paramVer, moodVer, moodSize>>

\* line 332
FinalSave ==
    /\ pc = "epoch" /\ epochIdx >= N
    /\ saves' = Append(saves, Checkpoint("fin", epochIdx))
    /\ pc' = "done"
    /\ UNCHANGED <<dataVars, ret, N, epochIdx, order, batch, fwd, emotion, grad,
                   optSteps, delivered, paramVer, moodVer, moodSize, logged>>

NextTrain ==
    \/ StartEpoch
    \/ Fetch
    \/ ZeroGrad
    \/ Forward
    \/ Loss
    \/ Backward
    \/ Step
    \/ EndEpoch
    \/ FinalSave

SpecTrain == InitTrain /\ [][NextTrain]_vars

(***************************************************************************)
(* Properties of the sampler, checked under Spec.                          *)
(***************************************************************************)
Returned == ret.call = "getitem" /\ ret.status = "ok"

\* the audio index of the p-th window of the last call
AudioIdxOf(p) == IF p = 1 THEN ret.audioIdxRoll ELSE ret.audioIdxRollPair

\* one of the two naive windows [a - 32, a + 32) of the last call leaves [0, T)
LeavesSequence ==
    \E p \in 1..PairSize :
        AudioIdxOf(p) - HalfWindow < 0 \/ AudioIdxOf(p) + HalfWindow > MFCCLen

\* C1: every window a call returns holds, in order, the feature rows
\* (audioIdx - 32 + k) mod T for k = 0..63; this is the circular continuation
\* when a naive window of the pair leaves the sequence, and when both are in
\* range it is the plain slice of rows audioIdx - 32 .. audioIdx + 31.
WraparoundRows ==
    Returned =>
        /\ ret.wrapped = LeavesSequence
        /\ \A p \in 1..Len(ret.inputValue) :
            /\ Len(ret.inputValue[p]) = WindowRows
            /\ \A k \in 0..(WindowRows - 1) :
                /\ ret.inputValue[p][k + 1] =
                      MFCC[((AudioIdxOf(p) - HalfWindow + k) % MFCCLen) + 1]
                /\ ~LeavesSequence =>
                      ret.inputValue[p][k + 1] = MFCC[AudioIdxOf(p) - HalfWindow + k + 1]

\* C1 witness: a training sample whose second window runs past the end of the
\* feature sequence and continues with its first rows.
WraparoundRowsWitness ==
    /\ Returned /\ ~preview
    /\ ret.audioIdxRollPair + HalfWindow > MFCCLen
    /\ ret.audioIdxRoll >= HalfWindow
    /\ ret.inputValue[2][WindowRows] < ret.inputValue[2][1]
    /\ ret.inputValue[2][WindowRows] = MFCC[ret.audioIdxRollPair + HalfWindow - MFCCLen]

\* C2: in training mode, with the target files of every frame on disk, each
\* valid index 0 <= i < count - 1 returns, whatever the jitter, an input of
\* shape (2, 1, 64, 32) and a target of shape (2, OUTPUT_COUNT); it never raises.
NeverRaisesFixedShape ==
    (ret.call = "getitem" /\ ~preview /\ maskFiles >= count
        /\ ret.req \in 0..(count - 2)) =>
        /\ ret.status = "ok"
        /\ Len(ret.inputValue) = PairSize
        /\ \A p \in 1..PairSize : Len(ret.inputValue[p]) = WindowRows
        /\ Len(ret.target) = PairSize
        /\ \A p \in 1..PairSize : Len(ret.target[p]) = OUTPUT_COUNT

\* C3: without preview and without jitter, sampler[-1] succeeds like
\* sampler[count - 2]: frame index count - 2, target files count - 1 and count.
NegativeIndexIsLastElement ==
    (Returned /\ ~preview /\ ~shiftRandom /\ ret.req = -1) =>
        /\ ret.i = count - 2
        /\ ret.reads = <<count - 1, count>>

\* C5: a training sample of index i (after wrapping) reads exactly the files
\* i + 1 and i + 2, in that order; its target rows are their contents halved,
\* hence in [-1, 1]; the valid indices 0 .. count - 2 read exactly files 1..count.
TargetFilesAndScale ==
    /\ (Returned /\ ~preview) =>
        /\ ret.i = (IF ret.req < 0 THEN count + ret.req ELSE ret.req)
        /\ ret.reads = <<ret.i + 1, ret.i + 2>>
        /\ Len(ret.target) = 2
        /\ \A p \in 1..2 : \A j \in 1..OUTPUT_COUNT :
            /\ 2 * ret.target[p][j] = MaskFile(ret.i + p)[j]
            /\ MaskFile(ret.i + p)[j] \in (-RawMax)..RawMax
            /\ ret.target[p][j] \in (-Unit)..Unit
        /\ ret.req \in 0..(count - 2) => Range(ret.reads) \subseteq 1..count
    /\ UNION {Range(TargetFiles(i)) : i \in 0..(count - 2)} = 1..count

\* C5 witness: a sample whose files hold both extremes -2 and 2.
TargetFilesAndScaleWitness ==
    /\ Returned /\ ~preview /\ ret.req \in 0..(count - 2)
    /\ \E j \in 1..OUTPUT_COUNT : MaskFile(ret.i + 1)[j] = RawMax /\ ret.target[1][j] = Unit
    /\ \E j \in 1..OUTPUT_COUNT : MaskFile(ret.i + 2)[j] = -RawMax /\ ret.target[2][j] = -Unit

\* C6: in preview mode every index 0 <= i < count returns the window of frame
\* i and an all-zero target, with jitter 0, reading no target file and never
\* raising, also when no target file exists.
PreviewIsTotal ==
    (ret.call = "getitem" /\ preview /\ ret.req \in 0..(count - 1)) =>
        /\ ret.status = "ok"
        /\ ret.randomShift = 0
        /\ ret.reads = <<>>
        /\ Len(ret.inputValue) = 1
        /\ Len(ret.inputValue[1]) = WindowRows
        /\ \A j \in 1..OUTPUT_COUNT : ret.target[1][j] = 0

\* C7 as stated: count = round(29.97 * samples / 16000).
FrameCountIsRounded ==
    /\ (2 * count - 1) * 100 * sampleRate <= 2 * animFPS100 * samples
    /\ 2 * animFPS100 * samples < (2 * count + 1) * 100 * sampleRate

\* C7, amended: count is 29.97 * samples / 16000 truncated to an integer.
FrameCountIsTruncated ==
    /\ count * 100 * sampleRate <= animFPS100 * samples
    /\ animFPS100 * samples < (count + 1) * 100 * sampleRate

\* C7 witness: a waveform whose duration times 29.97 has a fraction above 1/2.
FrameCountIsTruncatedWitness ==
    /\ 2 * animFPS100 * samples > (2 * count + 1) * 100 * sampleRate
    /\ ret.call = "len"

(***************************************************************************)
(* Properties of train(), checked under SpecTrain.                         *)
(***************************************************************************)
\* batches of one epoch
BatchesPerEpoch == (DataLen + batchSize - 1) \div batchSize

\* a batch has been delivered and its optimizer step is still to come
InBatch == pc \in {"zero_grad", "forward", "loss", "backward", "step"}

\* the forward pass of the current batch has run
Forwarded == pc \in {"loss", "backward", "step"}

\* C4: every index the loader draws or delivers lies in 0 .. count - 2, the
\* mood table has count rows, and every mood row the forward pass or the
\* emotion loss selects (rows i and i + 1) lies inside it: no index error.
MoodIndexInRange ==
    /\ moodSize = count
    /\ pc # "index_error"
    /\ \A k \in DOMAIN order : 0 <= order[k] /\ order[k] < count - 1
    /\ \A k \in DOMAIN batch :
        /\ 0 <= batch[k].i /\ batch[k].i < count - 1
        /\ batch[k].i + 1 <= moodSize - 1
    /\ \A r \in DOMAIN fwd : 0 <= fwd[r].mood /\ fwd[r].mood <= moodSize - 1
    /\ \A k \in DOMAIN emotion : \A m \in 1..2 :
        0 <= emotion[k][m] /\ emotion[k][m] <= moodSize - 1

\* C4 witness: the emotion loss of a batch holding the last index count - 2
\* has compared the last two rows of the mood table.
MoodIndexInRangeWitness ==
    /\ pc = "backward"
    /\ \E k \in DOMAIN batch :
        batch[k].i = count - 2 /\ emotion[k] = <<moodSize - 2, moodSize - 1>>

\* C8: the checkpoints written so far are, in order, E{k} for the multiples k
\* of 50 among the finished epochs 1..epochIdx, each written when epoch k's
\* last step was done, followed, once train() has returned and not before, by
\* one '_fin' checkpoint written after the N-th epoch.
CheckpointSchedule ==
    LET e == epochIdx \div CheckpointEvery
    IN  /\ Len(saves) = e + (IF pc = "done" THEN 1 ELSE 0)
        /\ \A j \in 1..e :
            /\ saves[j].tag = "E"
            /\ saves[j].epoch = CheckpointEvery * j
            /\ saves[j].steps = saves[j].epoch * BatchesPerEpoch
        /\ pc = "done" =>
            /\ epochIdx = N
            /\ saves[e + 1].tag = "fin"
            /\ saves[e + 1].steps = N * BatchesPerEpoch
        /\ Len(saves) > e => pc = "done"

\* C8 witness: a finished run whose budget is a multiple of 50 and that wrote
\* two epoch checkpoints and then '_fin'.
CheckpointScheduleWitness ==
    /\ pc = "done" /\ N % CheckpointEvery = 0
    /\ Len(saves) = 3
    /\ saves[1].tag = "E" /\ saves[2].tag = "E" /\ saves[3].tag = "fin"
    /\ saves[1].epoch < saves[2].epoch

\* C9: after the forward pass, the mood row joined to folded row 2b + p
\* (element b of the batch, member p of its pair) is row i_b + p.
MoodRowAlignment ==
    Forwarded =>
        \A r \in DOMAIN fwd :
            fwd[r].mood = batch[fwd[r].elem + 1].i + fwd[r].member

\* C10, the counters: one optimizer step per delivered batch, and every
\* checkpoint holds the parameters after (epochs done) x (batches per epoch)
\* steps; the parameters and the mood table have been updated once per step.
StepAccounting ==
    /\ optSteps = delivered - (IF InBatch THEN 1 ELSE 0)
    /\ paramVer = optSteps /\ moodVer = optSteps
    /\ pc \in {"epoch", "done"} => optSteps = epochIdx * BatchesPerEpoch
    /\ pc \in {"forward", "loss", "backward"} => grad = "zeroed"
    /\ pc = "step" => grad = "computed"
    /\ \A j \in DOMAIN saves :
        /\ saves[j].params = saves[j].epoch * BatchesPerEpoch
        /\ saves[j].mood = saves[j].params
        /\ saves[j].steps = saves[j].params
    /\ pc = "done" => saves[Len(saves)].params = N * BatchesPerEpoch

\* C10, the order: an optimizer step is taken only with the gradients of the
\* delivered batch computed (after zero-grad, forward, losses, backward), it is
\* one step, the next batch is fetched only after it, and the mood table
\* changes only in such a step.
StepOrder ==
    [][/\ optSteps' # optSteps =>
            /\ pc = "step" /\ grad = "computed" /\ emotion = EmotionPairs(batch)
            /\ fwd = ForwardRows(batch)
            /\ optSteps' = optSteps + 1
       /\ moodVer' # moodVer => optSteps' = optSteps + 1 /\ moodVer' = moodVer + 1
       /\ paramVer' # paramVer => optSteps' = optSteps + 1 /\ paramVer' = paramVer + 1
       /\ delivered' # delivered => pc = "fetch" /\ optSteps = delivered
       /\ grad' = "computed" /\ grad # "computed" => pc = "backward"
       /\ grad' = "zeroed" /\ grad # "zeroed" => pc = "zero_grad"]_vars

\* C10: StepAccounting in every state and StepOrder in every step.
OneStepPerBatch == []StepAccounting /\ StepOrder

\* C10 witness: a finished run of N epochs with N x M steps in '_fin'.
OneStepPerBatchWitness ==
    /\ pc = "done" /\ N = epochCount
    /\ BatchesPerEpoch > 1
    /\ saves[Len(saves)].params = N * BatchesPerEpoch
    /\ optSteps = delivered /\ optSteps > 0

====
